---- MODULE Spec2Model ----
\* bevy_sprite_sheet: slicing an atlas image into sub images by rectangles,
\* pairing aseprite descriptors with images by path, and the SpriteSheets
\* registry with its lookups.  Modelled from src/src/lib.rs and src/src/rect.rs.
\*
\* Strings are sequences of one-character strings, so that replace and split
\* are computed character by character as the standard library does.
\* Rust indices are 0-based; TLA+ sequences are 1-based, so data[k] in the
\* source is data[k + 1] here.
\*
\* An asset store is the sequence of its assets in iteration order; the
\* id of an asset, and the handle images.add answers, is its position.  The
\* path the asset server knows for an asset is kept with the asset.  Every
\* loaded image has its data and a pixel size, so the two expects of
\* split_image_by_rectangles (lines 114, 125) do not fire.
EXTENDS Integers, Sequences, FiniteSets, TLC

VARIABLES
    \* --- extract_rectangle exercised on its own -------------------------
    exData,        \* source byte buffer
    exWidth,       \* source row width in pixels
    exHeight,      \* source height in pixels
    exPixel,       \* bytes per pixel
    exRect,        \* the Rect handed to extract_rectangle
    exOut,         \* outcome of the call ("none" before the call)
    \* --- the create step and the registry -------------------------------
    aseprite_data, \* Assets<AsepriteData> in iteration order, with asset paths
    images,        \* Assets<Image> in iteration order, with asset paths
    pc,            \* position of create_sprite_sheets
    paths_and_data,\* the matched (path, descriptor, image) triples
    built,         \* (path, SpriteSheet) pairs yielded to SpriteSheets::new
    sheets,        \* the SpriteSheets value returned by the create function
    commands,      \* the system's Commands buffer: the queued insert_resource
    resource,      \* the SpriteSheets resource of the World
    next_state,    \* TRUE once next_state.set(followup_state) has run
    panic,         \* the panic message of an aborted create step
    lookup,        \* outcome of the last get_sheet / image_at / images_at call
    lkSheet        \* a SpriteSheet whose image_at / images_at are exercised

vars == <<exData, exWidth, exHeight, exPixel, exRect, exOut,
          aseprite_data, images, pc, paths_and_data, built, sheets,
          commands, resource, next_state, panic, lookup, lkSheet>>

exVars == <<exData, exWidth, exHeight, exPixel, exRect, exOut>>
sheetVars == <<aseprite_data, images, pc, paths_and_data, built, sheets,
               commands, resource, next_state, panic, lookup, lkSheet>>

\* ------------------------------------------------------------------------
\* Bounds of the model
\* ------------------------------------------------------------------------
MaxWidth == 4
MaxHeight == 2
MaxPixel == 2
MaxRect == 3
MaxDescriptors == 2
MaxImages == 2
MaxTextures == 3
MaxHandle == 2
MaxIndex == 3
MaxIndexes == 2

\* ------------------------------------------------------------------------
\* Values
\* ------------------------------------------------------------------------
\* an asset without a path (get_path answers None)
None == <<"None">>
\* a value that is not there yet, and one that is
Absent == <<>>
Present(v) == <<v>>
NoPanic == "no panic"

\* Rect::new
Rect(x, y, width, height) ==
    [position |-> [x |-> x, y |-> y], width |-> width, height |-> height]

Ok(v) == [kind |-> "ok", value |-> v]
Panic(msg) == [kind |-> "panic", value |-> msg]
NotCalled == [kind |-> "none", value |-> <<>>]
NoLookup == [op |-> "none", path |-> <<>>, indexes |-> <<>>,
             kind |-> "none", value |-> <<>>]

\* panic messages
\* data[start..end] with start past the buffer
SliceStartPanic(start, len) ==
    "range start index " \o ToString(start)
        \o " out of range for slice of length " \o ToString(len)
\* data[start..end] with only end past the buffer
SliceEndPanic(end, len) ==
    "range end index " \o ToString(end)
        \o " out of range for slice of length " \o ToString(len)
\* self.textures[index] with index not below the length
IndexPanic(len, index) ==
    "index out of bounds: the len is " \o ToString(len)
        \o " but the index is " \o ToString(index)
NotLoadedPanic == "aseprite data should be loaded"

\* ------------------------------------------------------------------------
\* extract_rectangle (lib.rs 138-149)
\* ------------------------------------------------------------------------
RECURSIVE extract_rows(_, _, _, _, _, _)
extract_rows(data, rect, data_width, pixel_width, y, extracted) ==
    IF y >= rect.height THEN Ok(extracted)
    ELSE LET start_index == data_width * rect.position.y
             start == start_index + y * data_width + rect.position.x * pixel_width
             end == start + rect.width * pixel_width
         IN  IF start > Len(data) THEN Panic(SliceStartPanic(start, Len(data)))
             ELSE IF end > Len(data) THEN Panic(SliceEndPanic(end, Len(data)))
             ELSE extract_rows(data, rect, data_width, pixel_width, y + 1,
                               extracted \o SubSeq(data, start + 1, end))

\* a slip of the stride: rows are taken rect.width apart instead of data_width
extract_rectangle_stride(data, rect, data_width, pixel_width) ==
    extract_rows(data, rect, rect.width * pixel_width, pixel_width, 0, <<>>)

extract_rectangle(data, rect, data_width, pixel_width) ==
    extract_rows(data, rect, data_width, pixel_width, 0, <<>>)

\* ------------------------------------------------------------------------
\* Specification SpecExtract: extract_rectangle on bounded inputs
\* ------------------------------------------------------------------------
\* a synthetic buffer in which every byte encodes its own offset
SyntheticBuffer(n) == [i \in 1..n |-> (i - 1) % 256]

Rects == {Rect(x, y, w, h) : x \in 0..MaxRect, y \in 0..MaxRect,
                             w \in 0..MaxRect, h \in 0..MaxRect}

IdleSheets ==
    /\ aseprite_data = <<>>
    /\ images = <<>>
    /\ pc = "idle"
    /\ paths_and_data = <<>>
    /\ built = <<>>
    /\ sheets = Absent
    /\ commands = Absent
    /\ resource = Absent
    /\ next_state = FALSE
    /\ panic = NoPanic
    /\ lookup = NoLookup
    /\ lkSheet = [textures |-> <<>>]

InitExtract ==
    /\ exWidth \in 1..MaxWidth
    /\ exHeight \in 0..MaxHeight
    /\ exPixel \in 1..MaxPixel
    /\ exData = SyntheticBuffer(exWidth * exHeight * exPixel)
    /\ exRect \in Rects
    /\ exOut = NotCalled
    /\ IdleSheets

\* split_image_by_rectangles line 114 and 127: data_width is the row width in
\* bytes, pixel_width the pixel size
ExtractCall ==
    /\ exOut.kind = "none"
    /\ exOut' = extract_rectangle(exData, exRect, exWidth * exPixel, exPixel)
    /\ UNCHANGED <<exData, exWidth, exHeight, exPixel, exRect>>
    /\ UNCHANGED sheetVars

NextExtract == ExtractCall

SpecExtract == InitExtract /\ [][NextExtract]_vars

\* --- C1 -----------------------------------------------------------------
InBounds(rect, width, height) ==
    /\ rect.position.x + rect.width <= width
    /\ rect.position.y + rect.height <= height

\* byte b of the pixel at column i, row j of a buffer whose rows are w pixels
PixelByte(buf, w, p, i, j, b) == buf[(j * w + i) * p + b + 1]

\* C1: extracting an in-bounds Rect succeeds with a tightly packed buffer of
\* width * height * pixel size bytes whose pixel (i, j) is the source pixel
\* (x + i, y + j).
C1_ExtractInBounds ==
    (exOut.kind # "none" /\ InBounds(exRect, exWidth, exHeight)) =>
        /\ exOut.kind = "ok"
        /\ Len(exOut.value) = exRect.width * exRect.height * exPixel
        /\ \A i \in 0..(exRect.width - 1), j \in 0..(exRect.height - 1),
              b \in 0..(exPixel - 1) :
                PixelByte(exOut.value, exRect.width, exPixel, i, j, b) =
                PixelByte(exData, exWidth, exPixel,
                          exRect.position.x + i, exRect.position.y + j, b)

C1_Witness ==
    /\ exOut.kind = "ok"
    /\ InBounds(exRect, exWidth, exHeight)
    /\ exRect.width >= 2 /\ exRect.height >= 2
    /\ exRect.position.x >= 1
    /\ exRect.width < exWidth
    /\ exPixel = 2
    /\ Len(exOut.value) = 8

\* --- C2 -----------------------------------------------------------------
\* the byte range the Rect implies: the end of its last row
ImpliedEnd(rect, width, p) ==
    ((rect.position.y + rect.height - 1) * width
        + rect.position.x + rect.width) * p

OutOfBounds(rect, width, p, len) ==
    \/ rect.position.x + rect.width > width
    \/ (rect.height > 0 /\ ImpliedEnd(rect, width, p) > len)

\* C2: an out-of-bounds Rect makes extract_rectangle fail, returning no buffer.
C2_OutOfBoundsFails ==
    (exOut.kind # "none"
        /\ OutOfBounds(exRect, exWidth, exPixel, Len(exData))) =>
        exOut.kind = "panic"

\* ------------------------------------------------------------------------
\* Strings
\* ------------------------------------------------------------------------
\* str::replace: every non-overlapping match of `from`, left to right
RECURSIVE replace(_, _, _)
replace(s, from, to) ==
    IF Len(s) < Len(from) THEN s
    ELSE IF SubSeq(s, 1, Len(from)) = from
         THEN to \o replace(SubSeq(s, Len(from) + 1, Len(s)), from, to)
         ELSE <<Head(s)>> \o replace(Tail(s), from, to)

\* str::split(sep).next(): the part before the first separator
RECURSIVE split_next(_, _)
split_next(s, sep) ==
    IF s = <<>> \/ Head(s) = sep THEN <<>>
    ELSE <<Head(s)>> \o split_next(Tail(s), sep)

BackSlash == <<"\\">>
Slash == <<"/">>
AsepriteJson == <<".", "a", "s", "e", "p", "r", "i", "t", "e",
                  ".", "j", "s", "o", "n">>
Png == <<".", "p", "n", "g">>

\* lines 69-72: the key of a descriptor
descriptor_path(p) == replace(replace(p, BackSlash, Slash), AsepriteJson, <<>>)

\* lines 84-89: what an image path is compared by
image_path(p) == split_next(replace(p, BackSlash, Slash), ".")

\* ------------------------------------------------------------------------
\* Matching descriptors with images (lib.rs 62-94)
\* ------------------------------------------------------------------------
\* lines 76-91: the first image, in iteration order, that has a path and whose
\* path compares equal to the descriptor's; 0 when there is none
RECURSIVE find_image(_, _, _)
find_image(path, imgs, id) ==
    IF id > Len(imgs) THEN 0
    ELSE IF imgs[id].path # None /\ image_path(imgs[id].path) = path THEN id
    ELSE find_image(path, imgs, id + 1)

\* a variant that expects a path of every image it passes, as of descriptors
RECURSIVE find_image_expect(_, _, _)
find_image_expect(path, imgs, id) ==
    IF id > Len(imgs) THEN 0
    ELSE IF imgs[id].path = None THEN -1
    ELSE IF image_path(imgs[id].path) = path THEN id
    ELSE find_image_expect(path, imgs, id + 1)

RECURSIVE match_pairs_expect(_, _, _, _)
match_pairs_expect(descs, imgs, k, acc) ==
    IF k > Len(descs) THEN Ok(acc)
    ELSE IF descs[k].path = None THEN Panic(NotLoadedPanic)
    ELSE LET path == descriptor_path(descs[k].path)
             id == find_image_expect(path, imgs, 1)
         IN  IF id = -1 THEN Panic(NotLoadedPanic)
             ELSE IF id = 0 THEN match_pairs_expect(descs, imgs, k + 1, acc)
             ELSE match_pairs_expect(descs, imgs, k + 1,
                      Append(acc, [path |-> path, ad |-> descs[k],
                                   image |-> imgs[id]]))

\* lines 62-94: the (path, descriptor, image) triples, or the panic of
\* get_path(id).expect(..) on a descriptor without a path
RECURSIVE match_pairs(_, _, _, _)
match_pairs(descs, imgs, k, acc) ==
    IF k > Len(descs) THEN Ok(acc)
    ELSE IF descs[k].path = None THEN Panic(NotLoadedPanic)
    ELSE LET path == descriptor_path(descs[k].path)
             id == find_image(path, imgs, 1)
         IN  IF id = 0 THEN match_pairs(descs, imgs, k + 1, acc)
             ELSE match_pairs(descs, imgs, k + 1,
                      Append(acc, [path |-> path, ad |-> descs[k],
                                   image |-> imgs[id]]))

\* ------------------------------------------------------------------------
\* Splitting an image and building the sheets (lib.rs 96-136, 159-185)
\* ------------------------------------------------------------------------
\* AsepriteData::rect_iter: the descriptor's rectangles in order
rect_iter(ad) == ad.rects

\* lines 118-135: the sub image of one Rect
sub_image(image, rect) ==
    LET sheet_width == image.width * image.pixel_size
        data == extract_rectangle(image.data, rect, sheet_width, image.pixel_size)
    IN  IF data.kind = "panic" THEN data
        ELSE Ok([path |-> None, width |-> rect.width, height |-> rect.height,
                 depth |-> image.depth, pixel_size |-> image.pixel_size,
                 data |-> data.value])

\* lines 101-105: the rectangles are split and added to the store one by one;
\* a handle is the position of the added image in the store
RECURSIVE split_and_add(_, _, _, _, _)
split_and_add(image, rects, k, store, handles) ==
    IF k > Len(rects) THEN [kind |-> "ok", value |-> handles, store |-> store]
    ELSE LET sub == sub_image(image, rects[k])
         IN  IF sub.kind = "panic"
             THEN [kind |-> "panic", value |-> sub.value, store |-> store]
             ELSE split_and_add(image, rects, k + 1, Append(store, sub.value),
                                Append(handles, Len(store) + 1))

Reverse(s) == [k \in 1..Len(s) |-> s[Len(s) + 1 - k]]

\* a sheet that collects its handles back to front
SpriteSheet_new_reversed(handles) == [textures |-> Reverse(handles)]

\* SpriteSheet::new
SpriteSheet_new(handles) == [textures |-> handles]

\* lines 96-107: one (path, SpriteSheet) pair per triple, in order
RECURSIVE build_sheets(_, _, _, _)
build_sheets(triples, k, store, pairs) ==
    IF k > Len(triples) THEN [kind |-> "ok", value |-> pairs, store |-> store]
    ELSE LET r == split_and_add(triples[k].image, rect_iter(triples[k].ad), 1,
                                store, <<>>)
         IN  IF r.kind = "panic"
             THEN [kind |-> "panic", value |-> r.value, store |-> r.store,
                   pairs |-> pairs]
             ELSE build_sheets(triples, k + 1, r.store,
                      Append(pairs, [path |-> triples[k].path,
                                     sheet |-> SpriteSheet_new(r.value)]))

Last(S) == CHOOSE k \in S : \A j \in S : j <= k

\* SpriteSheets::new: collecting into a HashMap keeps the last value of a key
SpriteSheets_new(paths_and_sheets) ==
    LET keys == {paths_and_sheets[k].path : k \in 1..Len(paths_and_sheets)}
    IN  [path_sheet_map |->
            [p \in keys |-> paths_and_sheets[
                Last({k \in 1..Len(paths_and_sheets) :
                         paths_and_sheets[k].path = p})].sheet]]

\* create_sprite_sheets_from_aseprite_data: the returned SpriteSheets or the
\* panic, the image store afterwards, and the intermediate triples and pairs
create_sprite_sheets_from_aseprite_data(descs, imgs) ==
    LET m == match_pairs(descs, imgs, 1, <<>>)
    IN  IF m.kind = "panic"
        THEN [kind |-> "panic", value |-> m.value, images |-> imgs,
              paths_and_data |-> <<>>, built |-> <<>>]
        ELSE LET b == build_sheets(m.value, 1, imgs, <<>>)
             IN  IF b.kind = "panic"
                 THEN [kind |-> "panic", value |-> b.value, images |-> b.store,
                       paths_and_data |-> m.value, built |-> b.pairs]
                 ELSE [kind |-> "ok", value |-> SpriteSheets_new(b.value),
                       images |-> b.store, paths_and_data |-> m.value,
                       built |-> b.value]

\* ------------------------------------------------------------------------
\* Lookups (lib.rs 165-172, 187-193)
\* ------------------------------------------------------------------------
SpriteSheetMsg == <<"s", "p", "r", "i", "t", "e", " ", "s", "h", "e", "e", "t", " ">>
WasNotLoadedMsg == <<" ", "w", "a", "s", " ", "n", "o", "t", " ",
                     "l", "o", "a", "d", "e", "d", "!">>

\* format!("sprite sheet {path} was not loaded!")
not_loaded_message(path) == SpriteSheetMsg \o path \o WasNotLoadedMsg

\* a lookup that unifies the separators of the queried path first
get_sheet_unifying(self, path) ==
    LET q == replace(path, BackSlash, Slash)
    IN  IF q \in DOMAIN self.path_sheet_map
        THEN Ok(self.path_sheet_map[q])
        ELSE Panic(not_loaded_message(path))

\* SpriteSheets::get_sheet
get_sheet(self, path) ==
    IF path \in DOMAIN self.path_sheet_map
    THEN Ok(self.path_sheet_map[path])
    ELSE Panic(not_loaded_message(path))

\* SpriteSheet::image_at: index is 0-based
image_at(self, index) ==
    IF index < Len(self.textures) THEN Ok(self.textures[index + 1])
    ELSE Panic(IndexPanic(Len(self.textures), index))

RECURSIVE images_at_from(_, _, _, _)
images_at_from(self, indexes, k, acc) ==
    IF k > Len(indexes) THEN Ok(acc)
    ELSE IF indexes[k] >= Len(self.textures)
         THEN Panic(IndexPanic(Len(self.textures), indexes[k]))
    ELSE images_at_from(self, indexes, k + 1,
                        Append(acc, self.textures[indexes[k] + 1]))

\* a variant that leaves out the indexes the sheet does not have
RECURSIVE images_at_skipping_from(_, _, _, _)
images_at_skipping_from(self, indexes, k, acc) ==
    IF k > Len(indexes) THEN Ok(acc)
    ELSE IF indexes[k] >= Len(self.textures)
         THEN images_at_skipping_from(self, indexes, k + 1, acc)
    ELSE images_at_skipping_from(self, indexes, k + 1,
                                 Append(acc, self.textures[indexes[k] + 1]))

images_at_skipping(self, indexes) == images_at_skipping_from(self, indexes, 1, <<>>)

\* SpriteSheet::images_at
images_at(self, indexes) == images_at_from(self, indexes, 1, <<>>)

\* ------------------------------------------------------------------------
\* Inputs of the create step
\* ------------------------------------------------------------------------
SeqsUpTo(S, n) == UNION {[1..m -> S] : m \in 0..n}

\* 4 x 2 pixels of one byte, bytes 0..7
AtlasA == [width |-> 4, height |-> 2, depth |-> 1, pixel_size |-> 1,
           data |-> SyntheticBuffer(8)]
\* 2 x 2 pixels of two bytes, bytes 100..107
AtlasB == [width |-> 2, height |-> 2, depth |-> 1, pixel_size |-> 2,
           data |-> [i \in 1..8 |-> 99 + i]]

Loaded(path, atlas) ==
    [path |-> path, width |-> atlas.width, height |-> atlas.height,
     depth |-> atlas.depth, pixel_size |-> atlas.pixel_size,
     data |-> atlas.data]

StemSlash == <<"s", "/", "h">>
StemBackSlash == <<"s", "\\", "h">>
StemDotted == <<"v", ".", "1", "/", "h">>
StemV == <<"v">>

ImageChoices ==
    { Loaded(StemSlash \o Png, AtlasA),
      Loaded(StemBackSlash \o Png, AtlasB),
      Loaded(StemDotted \o Png, AtlasA),
      Loaded(None, AtlasB) }

TwoFrames == <<Rect(2, 0, 2, 1), Rect(0, 1, 2, 1)>>
OneFrame == <<Rect(0, 0, 2, 2)>>
PastTheEnd == <<Rect(0, 0, 2, 2), Rect(3, 1, 2, 1)>>

Descriptor(path, rects) == [path |-> path, rects |-> rects]

DescriptorChoices ==
    { Descriptor(StemSlash \o AsepriteJson, TwoFrames),
      Descriptor(StemBackSlash \o AsepriteJson, Reverse(TwoFrames)),
      Descriptor(StemSlash \o AsepriteJson, OneFrame),
      Descriptor(StemSlash \o AsepriteJson, PastTheEnd),
      Descriptor(StemSlash \o AsepriteJson, <<>>),
      Descriptor(StemDotted \o AsepriteJson, OneFrame),
      Descriptor(StemV \o AsepriteJson, OneFrame),
      Descriptor(None, OneFrame) }

QueryPaths == {StemSlash, StemBackSlash, StemSlash \o Png, StemDotted, StemV}

IdleExtract ==
    /\ exData = <<>>
    /\ exWidth = 1
    /\ exHeight = 0
    /\ exPixel = 1
    /\ exRect = Rect(0, 0, 0, 0)
    /\ exOut = NotCalled

\* the asset server hands out one asset per path; assets without a path are
\* not so restricted
OnePerPath(assets) ==
    \A i, j \in 1..Len(assets) :
        (i # j /\ assets[i].path = assets[j].path) => assets[i].path = None

\* the state on entering the create state: descriptors and images are loaded
Init ==
    /\ aseprite_data \in {a \in SeqsUpTo(DescriptorChoices, MaxDescriptors) :
                              OnePerPath(a)}
    /\ images \in {a \in SeqsUpTo(ImageChoices, MaxImages) : OnePerPath(a)}
    /\ pc = "start"
    /\ paths_and_data = <<>>
    /\ built = <<>>
    /\ sheets = Absent
    /\ commands = Absent
    /\ resource = Absent
    /\ next_state = FALSE
    /\ panic = NoPanic
    /\ lookup = NoLookup
    /\ lkSheet = [textures |-> <<>>]
    /\ IdleExtract

\* ------------------------------------------------------------------------
\* create_sprite_sheets (lib.rs 46-55), statement by statement
\* ------------------------------------------------------------------------
\* line 48, the argument: create_sprite_sheets_from_aseprite_data runs
Create ==
    /\ pc = "start"
    /\ LET r == create_sprite_sheets_from_aseprite_data(aseprite_data, images)
       IN  /\ images' = r.images
           /\ paths_and_data' = r.paths_and_data
           /\ built' = r.built
           /\ IF r.kind = "ok"
              THEN sheets' = Present(r.value) /\ pc' = "created"
                   /\ panic' = NoPanic
              ELSE sheets' = Absent /\ pc' = "panicked" /\ panic' = r.value
    /\ UNCHANGED <<aseprite_data, commands, resource, next_state, lookup,
                   lkSheet>>
    /\ UNCHANGED exVars

\* line 48: commands.insert_resource(..) queues the insertion in the system's
\* Commands buffer; the World is not touched yet
InsertResource ==
    /\ pc = "created"
    /\ commands' = sheets
    /\ pc' = "queued"
    /\ UNCHANGED <<aseprite_data, images, paths_and_data, built, sheets,
                   resource, next_state, panic, lookup, lkSheet>>
    /\ UNCHANGED exVars

\* line 53: next_state.set(followup_state) writes NextState at once; the
\* system returns
SetNextState ==
    /\ pc = "queued"
    /\ next_state' = TRUE
    /\ pc' = "returned"
    /\ UNCHANGED <<aseprite_data, images, paths_and_data, built, sheets,
                   commands, resource, panic, lookup, lkSheet>>
    /\ UNCHANGED exVars

\* after the system has returned the schedule applies its Commands buffer:
\* the queued SpriteSheets becomes the resource of the World
ApplyCommands ==
    /\ pc = "returned"
    /\ resource' = commands
    /\ commands' = Absent
    /\ pc' = "done"
    /\ UNCHANGED <<aseprite_data, images, paths_and_data, built, sheets,
                   next_state, panic, lookup, lkSheet>>
    /\ UNCHANGED exVars

\* a caller queries the installed registry
GetSheet ==
    /\ pc = "done"
    /\ \E path \in QueryPaths :
        LET r == get_sheet(resource[1], path)
        IN  lookup' = [op |-> "get_sheet", path |-> path, indexes |-> <<>>,
                       kind |-> r.kind, value |-> r.value]
    /\ UNCHANGED <<aseprite_data, images, pc, paths_and_data, built, sheets,
                   commands, resource, next_state, panic, lkSheet>>
    /\ UNCHANGED exVars

Next ==
    \/ Create
    \/ InsertResource
    \/ SetNextState
    \/ ApplyCommands
    \/ GetSheet

Spec == Init /\ [][Next]_vars

\* ------------------------------------------------------------------------
\* Specification SpecLookup: image_at and images_at on bounded sheets
\* ------------------------------------------------------------------------
\* a sheet of n textures whose handles are consecutive, as images.add yields
SheetOf(first, n) == SpriteSheet_new([k \in 1..n |-> first + k - 1])

InitLookup ==
    /\ lkSheet \in {SheetOf(first, n) : first \in 1..MaxHandle, n \in 0..MaxTextures}
    /\ lookup = NoLookup
    /\ aseprite_data = <<>>
    /\ images = <<>>
    /\ pc = "idle"
    /\ paths_and_data = <<>>
    /\ built = <<>>
    /\ sheets = Absent
    /\ commands = Absent
    /\ resource = Absent
    /\ next_state = FALSE
    /\ panic = NoPanic
    /\ IdleExtract

\* each behaviour records one call: the calls take &self and change nothing
ImageAt ==
    /\ lookup.op = "none"
    /\ \E index \in 0..MaxIndex :
        LET r == image_at(lkSheet, index)
        IN  lookup' = [op |-> "image_at", path |-> <<>>, indexes |-> <<index>>,
                       kind |-> r.kind, value |-> r.value]
    /\ UNCHANGED <<aseprite_data, images, pc, paths_and_data, built, sheets,
                   commands, resource, next_state, panic, lkSheet>>
    /\ UNCHANGED exVars

ImagesAt ==
    /\ lookup.op = "none"
    /\ \E indexes \in SeqsUpTo(0..MaxIndex, MaxIndexes) :
        LET r == images_at(lkSheet, indexes)
        IN  lookup' = [op |-> "images_at", path |-> <<>>, indexes |-> indexes,
                       kind |-> r.kind, value |-> r.value]
    /\ UNCHANGED <<aseprite_data, images, pc, paths_and_data, built, sheets,
                   commands, resource, next_state, panic, lkSheet>>
    /\ UNCHANGED exVars

NextLookup ==
    \/ ImageAt
    \/ ImagesAt

SpecLookup == InitLookup /\ [][NextLookup]_vars

\* ------------------------------------------------------------------------
\* Claims about the create step (specification Spec)
\* ------------------------------------------------------------------------
Returned == pc \in {"created", "queued", "returned", "done"}
Matched == pc # "start" /\ panic # NotLoadedPanic
Registry == sheets[1].path_sheet_map

\* the images a sheet's handles stand for
SheetImages(sheet, store) ==
    [k \in 1..Len(sheet.textures) |-> store[sheet.textures[k]]]

\* --- C3 -----------------------------------------------------------------
\* C3: SpriteSheets::new never returns a registry when two of the entries it
\* was given have the same path.
C3_DuplicatePathFails ==
    Returned =>
        \A k1, k2 \in 1..Len(built) :
            k1 # k2 => built[k1].path # built[k2].path

\* --- C4 -----------------------------------------------------------------
UnifySeparators(p) == [k \in 1..Len(p) |-> IF p[k] = "\\" THEN "/" ELSE p[k]]
SwapSeparators(p) ==
    [k \in 1..Len(p) |-> IF p[k] = "\\" THEN "/"
                         ELSE IF p[k] = "/" THEN "\\" ELSE p[k]]

HasSuffix(p, suffix) ==
    /\ Len(p) >= Len(suffix)
    /\ SubSeq(p, Len(p) - Len(suffix) + 1, Len(p)) = suffix

\* the descriptor path without its metadata suffix
StripMetadataSuffix(p) ==
    IF HasSuffix(p, AsepriteJson) THEN SubSeq(p, 1, Len(p) - Len(AsepriteJson))
    ELSE p

\* the path without the extension of its file name: the last "." after the
\* last separator and what follows it
StripExtension(p) ==
    LET dots == {k \in 1..Len(p) :
                    p[k] = "." /\ \A j \in k..Len(p) : p[j] # "/"}
    IN  IF dots = {} THEN p ELSE SubSeq(p, 1, Last(dots) - 1)

SameStem(descriptor, image) ==
    StripMetadataSuffix(UnifySeparators(descriptor)) =
    StripExtension(UnifySeparators(image))

\* what the code compares
Compared(descriptor, image) == image_path(image) = descriptor_path(descriptor)

\* C4: a descriptor is paired with an image exactly when their paths, with
\* separators unified and the metadata suffix resp. the file extension
\* stripped, are equal; swapping the separator style of either path changes
\* no pairing.
C4_PairedByStrippedPath ==
    Matched =>
        /\ \A d \in 1..Len(aseprite_data) :
            LET dp == aseprite_data[d].path
                candidates == {i \in 1..Len(images) :
                                  /\ images[i].path # None
                                  /\ SameStem(dp, images[i].path)}
                pairs == {k \in 1..Len(paths_and_data) :
                             paths_and_data[k].ad = aseprite_data[d]}
            IN  /\ candidates # {} => pairs # {}
                /\ \A k \in pairs :
                      SameStem(dp, paths_and_data[k].image.path)
        /\ \A d \in 1..Len(aseprite_data), i \in 1..Len(images) :
            LET dp == aseprite_data[d].path
                ip == images[i].path
            IN  ip # None =>
                    /\ Compared(SwapSeparators(dp), ip) = Compared(dp, ip)
                    /\ Compared(dp, SwapSeparators(ip)) = Compared(dp, ip)

\* --- C5 -----------------------------------------------------------------
\* the descriptors that have a path and an image to be paired with
Pairable ==
    {d \in 1..Len(aseprite_data) :
        /\ aseprite_data[d].path # None
        /\ \E k \in 1..Len(paths_and_data) :
              paths_and_data[k].ad = aseprite_data[d]}

\* C5 as stated: a resource without a path, image or descriptor, never makes
\* the create step fail, and every descriptor that has a matching image has
\* its path in the registry.
C5_PathlessExcluded ==
    /\ panic # NotLoadedPanic
    /\ Returned =>
          \A d \in Pairable :
              descriptor_path(aseprite_data[d].path) \in DOMAIN Registry

WithPaths(assets) == SelectSeq(assets, LAMBDA a : a.path # None)

\* what a run of the create function leaves behind: the panic message, or the
\* sub images of every sheet of the registry
Outcome(kind, value, store) ==
    IF kind = "panic" THEN <<"panic", value>>
    ELSE <<"ok", [p \in DOMAIN value.path_sheet_map |->
                     SheetImages(value.path_sheet_map[p], store)]>>

\* C5 as amended: images without a path are left out of the matching, so the
\* create step ends as it would without them, by the same panic or with the
\* same sheets; a descriptor without a path aborts the create step.
C5_PathlessImagesExcluded ==
    [][(pc = "start" /\ pc' # "start") =>
        LET without == create_sprite_sheets_from_aseprite_data(
                           aseprite_data, WithPaths(images))
        IN  /\ Outcome(without.kind, without.value, without.images) =
               (IF pc' = "panicked" THEN Outcome("panic", panic', images')
                ELSE Outcome("ok", sheets'[1], images'))
            /\ (\E d \in 1..Len(aseprite_data) : aseprite_data[d].path = None)
                  => (pc' = "panicked" /\ panic' = NotLoadedPanic
                      /\ sheets' = Absent /\ images' = images)
    ]_vars

Handles == UNION {{built[k].sheet.textures[j] :
                      j \in 1..Len(built[k].sheet.textures)} :
                  k \in 1..Len(built)}

C5_Witness ==
    /\ pc = "done"
    /\ \E id \in 1..Len(images) : images[id].path = None /\ id \notin Handles
    /\ \E p \in DOMAIN Registry : Len(Registry[p].textures) = 2

\* --- C6 -----------------------------------------------------------------
\* the rectangles of the matched descriptors that run past their image's buffer
PastBuffer ==
    \E k \in 1..Len(paths_and_data) :
        \E j \in 1..Len(paths_and_data[k].ad.rects) :
            sub_image(paths_and_data[k].image,
                      paths_and_data[k].ad.rects[j]).kind = "panic"

\* C6: every path of the registry is the path, separators unified and the
\* metadata suffix resp. the file extension stripped, of a descriptor and of an
\* image; descriptors and images without a counterpart add no entry and no
\* failure: the create step fails only for a descriptor without a path or a
\* matched rectangle past the buffer.
C6_UnmatchedExcluded ==
    /\ Returned =>
        /\ \A p \in DOMAIN Registry :
            /\ \E d \in 1..Len(aseprite_data) :
                  /\ aseprite_data[d].path # None
                  /\ StripMetadataSuffix(
                         UnifySeparators(aseprite_data[d].path)) = p
            /\ \E i \in 1..Len(images) :
                  /\ images[i].path # None
                  /\ StripExtension(UnifySeparators(images[i].path)) = p
        /\ Cardinality(DOMAIN Registry) <= Len(aseprite_data)
    /\ pc = "panicked" =>
        \/ \E d \in 1..Len(aseprite_data) : aseprite_data[d].path = None
        \/ PastBuffer

\* --- C7 -----------------------------------------------------------------
\* C7: the sheet built for a matched descriptor has one sub image per
\* rectangle, and its sub image k has the size of rectangle k and the bytes
\* extracted for rectangle k from the matched image; sheets built from the same
\* image for permuted rectangles hold the same sub images, permuted alike.
C7_FramesInOrder ==
    \A k \in 1..Len(built) :
        LET image == paths_and_data[k].image
            rects == paths_and_data[k].ad.rects
            subs == SheetImages(built[k].sheet, images)
        IN  /\ built[k].path = paths_and_data[k].path
            /\ Len(built[k].sheet.textures) = Len(rects)
            /\ \A j \in 1..Len(rects) :
                /\ subs[j].width = rects[j].width
                /\ subs[j].height = rects[j].height
                /\ subs[j].pixel_size = image.pixel_size
                /\ Ok(subs[j].data) =
                     extract_rectangle(image.data, rects[j],
                                       image.width * image.pixel_size,
                                       image.pixel_size)
                /\ InBounds(rects[j], image.width, image.height) =>
                     \A x \in 0..(rects[j].width - 1),
                        y \in 0..(rects[j].height - 1),
                        b \in 0..(image.pixel_size - 1) :
                          PixelByte(subs[j].data, rects[j].width,
                                    image.pixel_size, x, y, b) =
                          PixelByte(image.data, image.width, image.pixel_size,
                                    rects[j].position.x + x,
                                    rects[j].position.y + y, b)
            /\ \A m \in 1..Len(built) :
                (/\ paths_and_data[m].image = image
                 /\ paths_and_data[m].ad.rects = Reverse(rects)) =>
                    SheetImages(built[m].sheet, images) = Reverse(subs)

C7_Witness ==
    /\ pc = "done"
    /\ Len(built) = 2
    /\ paths_and_data[1].ad.rects = TwoFrames
    /\ paths_and_data[2].ad.rects = Reverse(TwoFrames)
    /\ paths_and_data[1].image = paths_and_data[2].image
    /\ SheetImages(built[1].sheet, images)[1].data = <<2, 3>>
    /\ SheetImages(built[1].sheet, images)[2].data = <<4, 5>>
    /\ SheetImages(built[2].sheet, images)[1].data = <<4, 5>>

\* --- C8 -----------------------------------------------------------------
\* C8: either every matched triple is built and a registry holding the sheet
\* of every one of them is installed and only then the next state requested
\* (so the next state is never requested while no registry is installed), or
\* the create step aborts with no registry installed and no next state
\* requested.
C8_AllOrNothing ==
    /\ next_state => resource # Absent
    /\ resource # Absent =>
        /\ Len(built) = Len(paths_and_data)
        /\ \A k \in 1..Len(paths_and_data) :
            /\ paths_and_data[k].path \in DOMAIN resource[1].path_sheet_map
            /\ resource[1].path_sheet_map[paths_and_data[k].path] = built[k].sheet
    /\ pc = "panicked" => (resource = Absent /\ ~next_state)

\* --- C9 -----------------------------------------------------------------
\* C9: get_sheet leaves the registry as it is; for a path that is a key it
\* returns the sheet stored for it, which was built for that path; for any
\* other path it fails with a message that names the queried path.
C9_GetSheetExact ==
    [][(lookup' # lookup /\ lookup'.op = "get_sheet") =>
        LET map == resource[1].path_sheet_map
            q == lookup'.path
        IN  /\ resource' = resource
            /\ images' = images
            /\ IF q \in DOMAIN map
               THEN /\ lookup'.kind = "ok"
                    /\ lookup'.value = map[q]
                    /\ \E k \in 1..Len(built) :
                          built[k].path = q /\ built[k].sheet = lookup'.value
               ELSE /\ lookup'.kind = "panic"
                    /\ lookup'.value = not_loaded_message(q)
                    /\ \E a \in 0..Len(lookup'.value) :
                          SubSeq(lookup'.value, a + 1, a + Len(q)) = q
    ]_vars

C9_Witness ==
    /\ lookup.op = "get_sheet"
    /\ lookup.path = StemBackSlash
    /\ lookup.kind = "panic"
    /\ StemSlash \in DOMAIN resource[1].path_sheet_map
    /\ Len(resource[1].path_sheet_map[StemSlash].textures) = 2

\* ------------------------------------------------------------------------
\* Claims about the sheet lookups (specification SpecLookup)
\* ------------------------------------------------------------------------
\* --- C10 ----------------------------------------------------------------
\* C10: images_at answers one handle per index, the k-th being what image_at
\* answers for the k-th index, also for repeated and non-contiguous indexes;
\* it fails if any index is not less than the number of textures.
C10_ImagesAt ==
    lookup.op = "images_at" =>
        IF \A k \in 1..Len(lookup.indexes) :
               lookup.indexes[k] < Len(lkSheet.textures)
        THEN /\ lookup.kind = "ok"
             /\ Len(lookup.value) = Len(lookup.indexes)
             /\ \A k \in 1..Len(lookup.indexes) :
                   Ok(lookup.value[k]) = image_at(lkSheet, lookup.indexes[k])
        ELSE lookup.kind = "panic"

C10_Witness ==
    /\ lookup.op = "images_at"
    /\ Len(lkSheet.textures) = 3
    /\ lookup.indexes = <<2, 0>>
    /\ lookup.kind = "ok"
    /\ lookup.value = <<lkSheet.textures[3], lkSheet.textures[1]>>

====
